---- MODULE Spec2Model ----
(***************************************************************************)
(* The 402 Payment Required flow of X402PaymentHandler (src/example.py).   *)
(* One call of handle_402_response is a chain of blocking steps; every     *)
(* step that talks to a collaborator (the served body, the balance, quote  *)
(* and swap endpoints, the Solana RPC client, the retried GET) draws the   *)
(* collaborator's answer from a small set, a raised exception included.    *)
(* Strings that the code converts (int(...), str(...)) are sequences of    *)
(* one-character strings, so that "01" and "1" differ as texts and agree   *)
(* as numbers.                                                             *)
(***************************************************************************)
EXTENDS Integers, Sequences, FiniteSets, TLC

\* ---------------------------------------------------------------- bounds
MaxAccepts == 2        \* longest `accepts` list served
MaxAmountLen == 2      \* longest amount text of an entry
MaxBalance == 2        \* largest balance the balance endpoint reports

\* ------------------------------------------------------- program constants
PaymentRequired == 402
MOLTYDEX_API == "https://api.moltydex.com"
SOLANA_RPC == "https://api.mainnet-beta.solana.com"
SupportedScheme == "solana"
SOL == "So11111111111111111111111111111111111111112"
SlippageBps == <<"5", "0">>
DefaultNetwork == "mainnet"
TransactionSignature == "transaction_signature"
wallet_address == "WALLET"

\* ------------------------------------------------------------ conversions
DigitChars == <<"0", "1", "2", "3", "4", "5", "6", "7", "8", "9">>

IsDigit(c) == \E d \in 1..10 : DigitChars[d] = c

DigitVal(c) == (CHOOSE d \in 1..10 : DigitChars[d] = c) - 1

\* int(text) of Python raises ValueError on the empty text and on a text
\* with a character that is no digit.
IsIntText(s) == s # <<>> /\ \A i \in 1..Len(s) : IsDigit(s[i])

\* int(text) of Python on a text of decimal digits (leading zeros allowed).
RECURSIVE PyIntDigits(_, _)
PyIntDigits(s, acc) ==
    IF s = <<>> THEN acc
    ELSE PyIntDigits(Tail(s), acc * 10 + DigitVal(Head(s)))

PyInt(s) == PyIntDigits(s, 0)

\* str(n) of Python for n >= 0: canonical decimal, no leading zeros.
RECURSIVE PyStr(_)
PyStr(n) ==
    IF n < 10 THEN <<DigitChars[n + 1]>>
    ELSE Append(PyStr(n \div 10), DigitChars[(n % 10) + 1])

\* ------------------------------------------------------------ input sets
AmountChars == {"0", "1"}

RECURSIVE TextsOfLen(_)
TextsOfLen(n) ==
    IF n = 0 THEN {<<>>}
    ELSE {Append(t, c) : t \in TextsOfLen(n - 1), c \in AmountChars}

AmountTexts == UNION {TextsOfLen(n) : n \in 1..MaxAmountLen} \cup {<<"x">>}

OptionKeys == {"scheme", "token", "amount", "network"}

Option(keys, scheme, token, amount, network) ==
    [keys |-> keys, scheme |-> scheme, token |-> token, amount |-> amount,
     network |-> network]

\* Entries of an `accepts` list.  A key that is absent from `keys` is absent
\* from the JSON object; its field then holds a filler nobody reads.
Options ==
    {Option({"scheme", "token", "amount"}, "solana", "TOKEN_MINT", a, "")
        : a \in AmountTexts}
    \cup {Option(OptionKeys, "solana", "OTHER_MINT", <<"1">>, "devnet"),
          Option({"scheme", "amount"}, "solana", "", <<"1">>, ""),
          Option({"scheme", "token"}, "solana", "TOKEN_MINT", <<>>, ""),
          Option({"scheme", "token", "amount"}, "ethereum", "ETH_TOKEN", <<"1">>, ""),
          Option({"token", "amount"}, "", "TOKEN_MINT", <<"1">>, "")}

AcceptsLists == UNION {[1..n -> Options] : n \in 0..MaxAccepts}

\* A response body: not JSON at all, a JSON object without `accepts`, or a
\* JSON object with an `accepts` list.
Bodies ==
    {[json |-> FALSE, has_accepts |-> FALSE, accepts |-> <<>>],
     [json |-> TRUE, has_accepts |-> FALSE, accepts |-> <<>>]}
    \cup {[json |-> TRUE, has_accepts |-> TRUE, accepts |-> l] : l \in AcceptsLists}

StatusCodes == {200, 402, 500}

Responses == [status_code : StatusCodes, body : Bodies]

Urls == {"https://example-api.com/data", "https://example-api.com/other"}

NoResponse == [status_code |-> 0, body |-> [json |-> FALSE, has_accepts |-> FALSE, accepts |-> <<>>]]

NoInfo == [token |-> "", amount |-> <<>>, network |-> ""]

NoParams == [input_mint |-> "", output_mint |-> "", amount |-> <<>>, slippage_bps |-> <<>>]

NoSwapData == [wallet_address |-> "", input_mint |-> "", output_mint |-> "",
               amount |-> <<>>, slippage_bps |-> <<>>]

NoHeaders == [XPayment |-> "", XPaymentAmount |-> <<>>, XPaymentToken |-> ""]

NoRequest == [url |-> "", headers |-> NoHeaders]

NoBalanceQuery == [wallet_address |-> "", token_mint |-> ""]

\* What the balance endpoint answers: the request fails, or a JSON object
\* with or without a `balance` text.
BalanceReplies ==
    {[raises |-> TRUE, has_balance |-> FALSE, balance |-> <<>>],
     [raises |-> FALSE, has_balance |-> FALSE, balance |-> <<>>]}
    \cup {[raises |-> FALSE, has_balance |-> TRUE, balance |-> PyStr(n)]
            : n \in 0..MaxBalance}

\* What the quote endpoint answers: the request fails, or a JSON object
\* without `output_amount`, with an empty one, or with an amount.
QuoteReplies ==
    {[raises |-> TRUE, has_output |-> FALSE, output_amount |-> <<>>],
     [raises |-> FALSE, has_output |-> FALSE, output_amount |-> <<>>],
     [raises |-> FALSE, has_output |-> TRUE, output_amount |-> <<>>],
     [raises |-> FALSE, has_output |-> TRUE, output_amount |-> <<"1">>]}

NoQuote == [raises |-> FALSE, has_output |-> FALSE, output_amount |-> <<>>]

\* The swap-build endpoint: the request fails, or a JSON object with or
\* without a decodable `transaction`.
BuildReplies == {"raises", "no_transaction", "transaction"}

\* client.send_transaction: raises, or returns a signature.
SendReplies == {"raises", "signature"}

\* client.confirm_transaction: raises (never confirmed), returns a status
\* that carries an error (the transaction failed on chain), or returns a
\* clean status.
ConfirmReplies == {"raises", "status_err", "status_ok"}

\* The retried GET: raises, or is answered with some status.
RetryReplies ==
    {[raises |-> r, status_code |-> s] : r \in BOOLEAN, s \in {200, 402}}

\* The response object made of such an answer.
Served(reply) ==
    [status_code |-> reply.status_code,
     body |-> [json |-> TRUE, has_accepts |-> FALSE, accepts |-> <<>>]]

\* ------------------------------------------------------------------ state
VARIABLES
    pc,                    \* position of the call in handle_402_response
    response,              \* argument: the response handed in
    original_request_url,  \* argument: the URL that returned it
    payment_info,          \* result of _parse_402_response
    balance,               \* result of _check_balance
    required_amount,       \* int(payment_info['amount'])
    balance_query,         \* params of the balance GET
    quote_params,          \* params of the quote GET
    quote,                 \* the quote endpoint's answer
    swap_data,             \* JSON of the swap-build POST
    confirm_status,        \* what client.confirm_transaction answered
    token_balance,         \* the wallet's holding of the token, at the collaborator
    payment_signature,     \* result of _send_transaction
    retry_request,         \* the retried GET: url and headers
    result,                \* the value handle_402_response returns
    error,                 \* the exception that ended the call
    log                    \* the calls made so far in this call, in order

vars == <<pc, response, original_request_url, payment_info, balance,
          required_amount, balance_query, quote_params, quote, swap_data,
          confirm_status, token_balance, payment_signature, retry_request,
          result, error, log>>

Terminal == {"Returned", "Retried", "Failed"}

Init ==
    /\ pc = "Idle"
    /\ response = NoResponse
    /\ original_request_url = ""
    /\ payment_info = NoInfo
    /\ balance = 0
    /\ required_amount = 0
    /\ balance_query = NoBalanceQuery
    /\ quote_params = NoParams
    /\ quote = NoQuote
    /\ swap_data = NoSwapData
    /\ confirm_status = ""
    /\ token_balance = 0
    /\ payment_signature = ""
    /\ retry_request = NoRequest
    /\ result = NoResponse
    /\ error = ""
    /\ log = <<>>

\* An exception leaves handle_402_response: the call is over, nothing else
\* of its state changes.
Raise(kind) ==
    /\ pc' = "Failed"
    /\ error' = kind

\* ------------------------------------------------- handle_402_response
\* Variant: every error status is taken for a payment request.
PassThroughBelow400(resp) == resp.status_code < 400

\* `response.status_code != 402` of the first line.
PassThrough(resp) == resp.status_code # PaymentRequired

\* Entry of handle_402_response with its two arguments.  A response that is
\* not a 402 is returned as it is.  Calls share no state, so one call is
\* followed from its entry to its end.
handle_402_response(resp, url) ==
    /\ pc = "Idle"
    /\ response' = resp
    /\ original_request_url' = url
    /\ payment_info' = NoInfo
    /\ balance' = 0
    /\ required_amount' = 0
    /\ balance_query' = NoBalanceQuery
    /\ quote_params' = NoParams
    /\ quote' = NoQuote
    /\ swap_data' = NoSwapData
    /\ confirm_status' = ""
    /\ token_balance' = 0
    /\ payment_signature' = ""
    /\ retry_request' = NoRequest
    /\ error' = ""
    /\ log' = <<>>
    /\ IF PassThrough(resp)
       THEN pc' = "Returned" /\ result' = resp
       ELSE pc' = "Received402" /\ result' = NoResponse

\* ------------------------------------------------- _parse_402_response
\* option.get('scheme'): None when the key is absent.
GetScheme(option) == IF "scheme" \in option.keys THEN option.scheme ELSE "None"

ParsedInfo(option) ==
    [token |-> option.token, amount |-> option.amount,
     network |-> IF "network" \in option.keys THEN option.network ELSE DefaultNetwork]

\* The loop over `accepts` from entry i on: the first entry of the supported
\* scheme is returned (KeyError if it lacks token or amount); with none the
\* method raises.
RECURSIVE FindOption(_, _)
FindOption(accepts, i) ==
    IF i > Len(accepts)
    THEN [raises |-> "No Solana payment option found", info |-> NoInfo]
    ELSE IF GetScheme(accepts[i]) = SupportedScheme
         THEN IF {"token", "amount"} \subseteq accepts[i].keys
              THEN [raises |-> "", info |-> ParsedInfo(accepts[i])]
              ELSE [raises |-> "KeyError", info |-> NoInfo]
         ELSE FindOption(accepts, i + 1)

\* Variant: with no entry of the supported scheme, the first entry is taken.
FirstOrSolana(body) ==
    IF ~body.json THEN [raises |-> "JSONDecodeError", info |-> NoInfo]
    ELSE IF FindOption(body.accepts, 1).raises = "No Solana payment option found"
              /\ Len(body.accepts) > 0
              /\ {"token", "amount"} \subseteq body.accepts[1].keys
         THEN [raises |-> "", info |-> ParsedInfo(body.accepts[1])]
         ELSE FindOption(body.accepts, 1)

\* response.json(), then payment_data.get('accepts', []), then the loop.
_parse_402_response(body) ==
    IF ~body.json THEN [raises |-> "JSONDecodeError", info |-> NoInfo]
    ELSE FindOption(IF body.has_accepts THEN body.accepts ELSE <<>>, 1)

\* payment_info = self._parse_402_response(response)
ParseRequirement ==
    /\ pc = "Received402"
    /\ log' = Append(log, "json")
    /\ LET parsed == _parse_402_response(response.body) IN
         IF parsed.raises # ""
         THEN Raise(parsed.raises) /\ UNCHANGED payment_info
         ELSE /\ pc' = "RequirementParsed"
              /\ payment_info' = parsed.info
              /\ UNCHANGED error
    /\ UNCHANGED <<response, original_request_url, balance, required_amount,
                   balance_query, quote_params, quote, swap_data, confirm_status,
                   token_balance, payment_signature, retry_request, result>>

\* ------------------------------------------------------- _check_balance
\* int(data.get('balance', 0)): 0 when the answer has no `balance`.
ReportedBalance(reply) == IF reply.has_balance THEN PyInt(reply.balance) ELSE 0

\* balance = self._check_balance(token); required_amount = int(amount).
\* The balance GET is sent before the amount text is converted, so an
\* amount that is no number fails the call after the balance query.
CheckBalance ==
    /\ pc = "RequirementParsed"
    /\ log' = Append(log, "balance")
    /\ balance_query' = [wallet_address |-> wallet_address,
                         token_mint |-> payment_info.token]
    /\ \E reply \in BalanceReplies :
         IF reply.raises
         THEN Raise("RequestException")
              /\ UNCHANGED <<balance, required_amount, token_balance>>
         ELSE /\ balance' = ReportedBalance(reply)
              /\ token_balance' = ReportedBalance(reply)
              /\ IF IsIntText(payment_info.amount)
                 THEN /\ required_amount' = PyInt(payment_info.amount)
                      /\ pc' = "BalanceChecked"
                      /\ UNCHANGED error
                 ELSE Raise("ValueError") /\ UNCHANGED required_amount
    /\ UNCHANGED <<response, original_request_url, payment_info, quote_params,
                   quote, swap_data, confirm_status, payment_signature,
                   retry_request, result>>

\* Variant: a balance equal to the amount also swaps.
NeedsSwapOrEqual(bal, required) == bal <= required

\* `if balance < required_amount:` of handle_402_response.
NeedsSwap(bal, required) == bal < required

\* Variant: only what is missing is swapped.
ShortfallAmount(bal, required) == required - bal

\* The `amount` argument handed to _swap_tokens: amount=required_amount.
SwapAmount(bal, required) == required

\* ---------------------------------------------------------- _swap_tokens
\* Variant: only the presence of the key is tested.
NoOutputKey(q) == ~q.has_output

\* `if not quote.get('output_amount')`: the key is absent or its text empty.
NoOutput(q) == ~q.has_output \/ q.output_amount = <<>>

\* The quote GET and the test of its answer.  A quote without an output
\* amount makes _swap_tokens return False, which handle_402_response turns
\* into "Failed to swap tokens".
GetQuote ==
    /\ pc = "BalanceChecked"
    /\ NeedsSwap(balance, required_amount)
    /\ log' = Append(log, "quote")
    /\ quote_params' = [input_mint |-> SOL,
                        output_mint |-> payment_info.token,
                        amount |-> PyStr(SwapAmount(balance, required_amount)),
                        slippage_bps |-> SlippageBps]
    /\ \E reply \in QuoteReplies :
         /\ quote' = reply
         /\ IF reply.raises THEN Raise("RequestException")
            ELSE IF NoOutput(reply) THEN Raise("Failed to swap tokens")
            ELSE pc' = "Quoted" /\ UNCHANGED error
    /\ UNCHANGED <<response, original_request_url, payment_info, balance,
                   required_amount, balance_query, swap_data, confirm_status,
                   token_balance, payment_signature, retry_request, result>>

\* The swap-build POST, then decoding and signing swap_result['transaction'].
BuildSwap ==
    /\ pc = "Quoted"
    /\ log' = Append(log, "swap_build")
    /\ swap_data' = [wallet_address |-> wallet_address,
                     input_mint |-> SOL,
                     output_mint |-> payment_info.token,
                     amount |-> PyStr(SwapAmount(balance, required_amount)),
                     slippage_bps |-> SlippageBps]
    /\ \E reply \in BuildReplies :
         IF reply = "raises" THEN Raise("RequestException")
         ELSE IF reply = "no_transaction" THEN Raise("KeyError")
         ELSE pc' = "SwapBuilt" /\ UNCHANGED error
    /\ UNCHANGED <<response, original_request_url, payment_info, balance,
                   required_amount, balance_query, quote_params, quote,
                   confirm_status, token_balance, payment_signature,
                   retry_request, result>>

\* signature = client.send_transaction(transaction)
SubmitSwap ==
    /\ pc = "SwapBuilt"
    /\ log' = Append(log, "swap_submit")
    /\ \E reply \in SendReplies :
         IF reply = "raises" THEN Raise("RPCException")
         ELSE pc' = "SwapSubmitted" /\ UNCHANGED error
    /\ UNCHANGED <<response, original_request_url, payment_info, balance,
                   required_amount, balance_query, quote_params, quote,
                   swap_data, confirm_status, token_balance, payment_signature,
                   retry_request, result>>

\* Variant: the balance is queried again after the confirmation and a
\* wallet that is still short fails the call.
ConfirmSwapRecheck ==
    /\ pc = "SwapSubmitted"
    /\ log' = log \o <<"swap_confirm", "balance">>
    /\ \E reply \in ConfirmReplies :
         /\ confirm_status' = reply
         /\ token_balance' = IF reply = "status_ok"
                             THEN token_balance + PyInt(quote.output_amount)
                             ELSE token_balance
         /\ IF reply = "raises" THEN Raise("UnconfirmedTxError")
            ELSE IF token_balance' < required_amount
            THEN Raise("InsufficientBalanceAfterExchange")
            ELSE pc' = "Exchanged" /\ UNCHANGED error
    /\ UNCHANGED <<response, original_request_url, payment_info, balance,
                   required_amount, balance_query, quote_params, quote,
                   swap_data, payment_signature, retry_request, result>>

\* client.confirm_transaction(signature); return True.  What the call
\* returns is dropped: _swap_tokens returns True whenever it does not raise.
\* A clean status means the quoted output reached the wallet.
ConfirmSwap ==
    /\ pc = "SwapSubmitted"
    /\ log' = Append(log, "swap_confirm")
    /\ \E reply \in ConfirmReplies :
         /\ confirm_status' = reply
         /\ IF reply = "raises"
            THEN Raise("UnconfirmedTxError") /\ UNCHANGED token_balance
            ELSE /\ pc' = "Exchanged"
                 /\ token_balance' = IF reply = "status_ok"
                                     THEN token_balance + PyInt(quote.output_amount)
                                     ELSE token_balance
                 /\ UNCHANGED error
    /\ UNCHANGED <<response, original_request_url, payment_info, balance,
                   required_amount, balance_query, quote_params, quote,
                   swap_data, payment_signature, retry_request, result>>

\* -------------------------------------------- payment and retried request
\* Variant: the payment does not wait for the confirmation.
CreatePaymentUnconfirmed ==
    /\ \/ pc = "BalanceChecked" /\ ~NeedsSwap(balance, required_amount)
       \/ pc \in {"SwapSubmitted", "Exchanged"}
    /\ pc' = "PaymentBuilt"
    /\ log' = Append(log, "payment_build")
    /\ UNCHANGED <<response, original_request_url, payment_info, balance,
                   required_amount, balance_query, quote_params, quote,
                   swap_data, confirm_status, token_balance, payment_signature,
                   retry_request, result, error>>

\* payment_tx = self._create_payment_transaction(payment_info): a stub that
\* returns None.  Reached past the `if`, with or without the swap.
CreatePayment ==
    /\ \/ pc = "BalanceChecked" /\ ~NeedsSwap(balance, required_amount)
       \/ pc = "Exchanged"
    /\ pc' = "PaymentBuilt"
    /\ log' = Append(log, "payment_build")
    /\ UNCHANGED <<response, original_request_url, payment_info, balance,
                   required_amount, balance_query, quote_params, quote,
                   swap_data, confirm_status, token_balance, payment_signature,
                   retry_request, result, error>>

\* Variant: the payment is submitted twice.
SendTransactionTwice ==
    /\ pc = "PaymentBuilt"
    /\ pc' = "PaymentSubmitted"
    /\ payment_signature' = TransactionSignature
    /\ log' = log \o <<"payment_submit", "payment_submit">>
    /\ UNCHANGED <<response, original_request_url, payment_info, balance,
                   required_amount, balance_query, quote_params, quote,
                   swap_data, confirm_status, token_balance, retry_request,
                   result, error>>

\* payment_signature = self._send_transaction(payment_tx): a stub that
\* returns a fixed text.
_send_transaction ==
    /\ pc = "PaymentBuilt"
    /\ pc' = "PaymentSubmitted"
    /\ payment_signature' = TransactionSignature
    /\ log' = Append(log, "payment_submit")
    /\ UNCHANGED <<response, original_request_url, payment_info, balance,
                   required_amount, balance_query, quote_params, quote,
                   swap_data, confirm_status, token_balance, retry_request,
                   result, error>>

\* Variant: the amount header is re-rendered from the number.
HeadersNormalized(signature, info) ==
    [XPayment |-> signature,
     XPaymentAmount |-> PyStr(PyInt(info.amount)),
     XPaymentToken |-> info.token]

\* The headers dict of the retried request.
Headers(signature, info) ==
    [XPayment |-> signature,
     XPaymentAmount |-> info.amount,
     XPaymentToken |-> info.token]

\* return requests.get(original_request_url, headers=headers)
RetryRequest ==
    /\ pc = "PaymentSubmitted"
    /\ log' = Append(log, "retry")
    /\ retry_request' = [url |-> original_request_url,
                         headers |-> Headers(payment_signature, payment_info)]
    /\ \E reply \in RetryReplies :
         IF reply.raises
         THEN Raise("RequestException") /\ UNCHANGED result
         ELSE pc' = "Retried" /\ result' = Served(reply) /\ UNCHANGED error
    /\ UNCHANGED <<response, original_request_url, payment_info, balance,
                   required_amount, balance_query, quote_params, quote,
                   swap_data, confirm_status, token_balance, payment_signature>>

\* ---------------------------------------------------------- specification
Step ==
    \/ ParseRequirement
    \/ CheckBalance
    \/ GetQuote
    \/ BuildSwap
    \/ SubmitSwap
    \/ ConfirmSwap
    \/ CreatePayment
    \/ _send_transaction
    \/ RetryRequest

\* The caller hands in any response and URL.
Call ==
    /\ pc = "Idle"
    /\ \E resp \in Responses, url \in Urls : handle_402_response(resp, url)

Next ==
    \/ Call
    \/ Step

Spec == Init /\ [][Next]_vars

\* ----------------------------------------------------------------- claims
Count(op) == Cardinality({i \in 1..Len(log) : log[i] = op})

Made(op) == \E i \in 1..Len(log) : log[i] = op

IsPrefix(s, t) == Len(s) <= Len(t) /\ \A i \in 1..Len(s) : s[i] = t[i]

SkipPath == <<"json", "balance", "payment_build", "payment_submit", "retry">>

SwapPath == <<"json", "balance", "quote", "swap_build", "swap_submit",
              "swap_confirm", "payment_build", "payment_submit", "retry">>

ExchangeCalls == {"quote", "swap_build", "swap_submit", "swap_confirm"}

PaymentCalls == {"payment_build", "payment_submit", "retry"}

Is402 == pc # "Idle" /\ response.status_code = 402

\* The `accepts` list of the body handed in (empty when the key is absent).
Accepts == IF response.body.has_accepts THEN response.body.accepts ELSE <<>>

Supported(i) ==
    "scheme" \in Accepts[i].keys /\ Accepts[i].scheme = "solana"

\* The balance and the required amount are both known: the balance step
\* has returned and the amount text was a number.
Checked ==
    /\ Is402
    /\ Made("balance")
    /\ ~(pc = "Failed" /\ Len(log) = 2)

Short == Checked /\ balance < required_amount

\* C1: a response whose status is not 402 is returned as the same response,
\* and the call makes no call of any kind: no body parse, no balance query,
\* no quote, no swap build or submission, no payment, no retried request.
C1_PassThrough ==
    (pc # "Idle" /\ response.status_code # 402) =>
        /\ pc = "Returned"
        /\ result = response
        /\ log = <<>>
        /\ balance_query = NoBalanceQuery
        /\ quote_params = NoParams
        /\ swap_data = NoSwapData
        /\ payment_signature = ""
        /\ retry_request = NoRequest

C1_Witness ==
    /\ pc = "Returned"
    /\ response.status_code = 500
    /\ \E i \in 1..Len(Accepts) : Supported(i)

\* C2: a 402 response whose JSON body has no `accepts` entry of scheme
\* 'solana' (the list missing or empty included) fails with "No Solana
\* payment option found", and the call makes no balance query, no quote or
\* swap call, no payment submission and no retried request.
C2_UnsupportedScheme ==
    (Is402 /\ response.body.json /\ \A i \in 1..Len(Accepts) : ~Supported(i)) =>
        /\ pc \in {"Received402", "Failed"}
        /\ pc = "Failed" => error = "No Solana payment option found"
        /\ IsPrefix(log, <<"json">>)
        /\ balance_query = NoBalanceQuery
        /\ retry_request = NoRequest

C2_Witness ==
    /\ pc = "Failed"
    /\ error = "No Solana payment option found"
    /\ Len(Accepts) = 2
    /\ Accepts[1].scheme = "ethereum"
    /\ "scheme" \notin Accepts[2].keys

\* C3 (as claimed): with the balance below the required amount, the quote
\* request and the swap build carry the shortfall, required - balance.
C3_ShortfallQuoted ==
    /\ Made("quote") => quote_params.amount = PyStr(required_amount - balance)
    /\ Made("swap_build") => swap_data.amount = PyStr(required_amount - balance)

\* C3 (amended): with the balance below the required amount, the quote
\* request and the swap build carry the full required amount, as the
\* canonical decimal text of int(amount), whatever the balance is.
C3_FullAmountQuoted ==
    /\ Made("quote") =>
          /\ balance < required_amount
          /\ IsIntText(quote_params.amount)
          /\ PyInt(quote_params.amount) = PyInt(payment_info.amount)
          /\ quote_params.amount = PyStr(PyInt(quote_params.amount))
          /\ quote_params.input_mint = SOL
          /\ quote_params.output_mint = payment_info.token
    /\ Made("swap_build") =>
          /\ swap_data.amount = quote_params.amount
          /\ swap_data.output_mint = payment_info.token

C3_Witness ==
    /\ Made("swap_build")
    /\ balance = 1
    /\ payment_info.amount = <<"1", "0">>
    /\ quote_params.amount = <<"1", "0">>

\* C4: when the confirmation of the submitted exchange does not succeed
\* (the confirmation call reports failure), the call fails, and no payment
\* is built or submitted and no retried request is issued.
C4_ConfirmFailureAborts ==
    (Made("swap_confirm") /\ confirm_status \in {"raises", "status_err"}) =>
        /\ pc = "Failed"
        /\ \A op \in PaymentCalls : ~Made(op)

\* C5: with a supported entry and balance >= required amount (equality
\* included), the call makes no quote, swap-build, swap-submit or
\* confirmation call, and goes from the balance check straight to building
\* and submitting the payment.
C5_SkipExchange ==
    (Checked /\ balance >= PyInt(payment_info.amount)) =>
        /\ \A op \in ExchangeCalls : ~Made(op)
        /\ IsPrefix(log, SkipPath)
        /\ quote_params = NoParams
        /\ swap_data = NoSwapData

C5_Witness ==
    /\ pc = "PaymentSubmitted"
    /\ balance = 1
    /\ PyInt(payment_info.amount) = 1
    /\ log = <<"json", "balance", "payment_build", "payment_submit">>

\* C6: with balance < required amount, the call makes exactly one quote
\* request and, the quote (and then the build) succeeding, exactly one
\* swap build and one swap submission; the balance is queried exactly once
\* and never again after the exchange, and the step after the exchange is
\* the payment, whatever the wallet then holds.
C6_OneExchangeNoRecheck ==
    Short =>
        /\ Count("balance") = 1
        /\ \A op \in ExchangeCalls : Count(op) <= 1
        /\ pc # "BalanceChecked" => Count("quote") = 1
        /\ (pc \notin {"BalanceChecked", "Quoted"} /\ ~quote.raises /\ quote.has_output
                /\ quote.output_amount # <<>>) => Count("swap_build") = 1
        /\ (pc \in {"SwapSubmitted", "Exchanged"} \/ \E op \in PaymentCalls : Made(op)) =>
                /\ Count("quote") = 1
                /\ Count("swap_build") = 1
                /\ Count("swap_submit") = 1
        /\ pc = "Exchanged" => log[Len(log)] = "swap_confirm"
        /\ Made("payment_build") => IsPrefix(log, SwapPath)

C6_Witness ==
    /\ pc = "PaymentSubmitted"
    /\ Short
    /\ confirm_status = "status_ok"
    /\ token_balance > balance
    /\ token_balance < required_amount

\* C7: in one call on a 402 response there is at most one exchange
\* submission and at most one payment submission, and a call that returns
\* the retried response has made exactly one payment submission.
C7_AtMostOnce ==
    Is402 =>
        /\ Count("swap_submit") <= 1
        /\ Count("payment_submit") <= 1
        /\ pc = "Retried" =>
              /\ Count("payment_submit") = 1
              /\ result.status_code \in {200, 402}

C7_Witness ==
    /\ pc = "Retried"
    /\ Count("swap_submit") = 1
    /\ Count("payment_submit") = 1

\* C8: the retried request goes to the original URL and carries X-Payment
\* (the reference the payment submission of this call returned),
\* X-Payment-Amount and X-Payment-Token, the last two being the amount and
\* token texts, character for character, of the first `accepts` entry whose
\* scheme is 'solana'.
C8_RetryHeaders ==
    Made("retry") =>
        /\ retry_request.url = original_request_url
        /\ retry_request.headers.XPayment = payment_signature
        /\ payment_signature = TransactionSignature
        /\ \E i \in 1..Len(Accepts) :
              /\ Supported(i)
              /\ \A j \in 1..(i - 1) : ~Supported(j)
              /\ retry_request.headers.XPaymentAmount = Accepts[i].amount
              /\ retry_request.headers.XPaymentToken = Accepts[i].token

C8_Witness ==
    /\ pc = "Retried"
    /\ Len(Accepts) = 2
    /\ ~Supported(1)
    /\ Accepts[2].amount = <<"0", "1">>
    /\ retry_request.headers.XPaymentAmount = <<"0", "1">>
    /\ retry_request.url = "https://example-api.com/other"

\* C9: with balance < required amount and a quote answer that has no output
\* amount (the field missing or empty), the call fails with "Failed to swap
\* tokens" and makes no swap build, no swap submission, no payment
\* submission and no retried request.
C9_QuoteUnavailable ==
    (Made("quote") /\ ~quote.raises
        /\ (~quote.has_output \/ quote.output_amount = <<>>)) =>
        /\ pc = "Failed"
        /\ error = "Failed to swap tokens"
        /\ log = <<"json", "balance", "quote">>
        /\ swap_data = NoSwapData
        /\ payment_signature = ""
        /\ retry_request = NoRequest

C9_Witness ==
    /\ pc = "Failed"
    /\ Made("quote")
    /\ quote.has_output
    /\ quote.output_amount = <<>>
    /\ balance < required_amount

\* The position the call is in after a step that did not raise.
StageAfter(op) ==
    CASE op = "json" -> "RequirementParsed"
      [] op = "balance" -> "BalanceChecked"
      [] op = "quote" -> "Quoted"
      [] op = "swap_build" -> "SwapBuilt"
      [] op = "swap_submit" -> "SwapSubmitted"
      [] op = "swap_confirm" -> "Exchanged"
      [] op = "payment_build" -> "PaymentBuilt"
      [] op = "payment_submit" -> "PaymentSubmitted"
      [] op = "retry" -> "Retried"

====
